---- MODULE Spec2Model ----
(***************************************************************************)
(* Model of the spreadsheet engine of src/src/components/Spreadsheet.jsx   *)
(* and of the edit widget of src/src/components/Cell.jsx.                  *)
(*                                                                         *)
(* Text (raw input, formula, display, error) is a sequence of one-         *)
(* character strings, so that the regular expressions, the textual         *)
(* substitution of references, parseFloat and Number.toString are modelled *)
(* by what they do to the characters.  Numbers are rationals n/d in lowest *)
(* terms; d = 0 encodes the non-finite doubles (n = 1 Infinity, n = -1     *)
(* -Infinity, n = 0 NaN).  `undefined` popped from an empty stack behaves  *)
(* as NaN in arithmetic and in isNaN, and is modelled as NaN.              *)
(***************************************************************************)
EXTENDS Integers, Sequences, FiniteSets, TLC

\* ---------------------------------------------------------------------
\* Bounds of the model
\* ---------------------------------------------------------------------
\* number of user edits (Cell.handleSubmit calls) in one behaviour
MaxEdits == 2
\* number of fractional digits Number.toString is expanded to
MaxFracDigits == 4

\* ---------------------------------------------------------------------
\* Characters and text
\* ---------------------------------------------------------------------
Digits == {"0", "1", "2", "3", "4", "5", "6", "7", "8", "9"}

DigitVal(ch) ==
  CASE ch = "0" -> 0 [] ch = "1" -> 1 [] ch = "2" -> 2 [] ch = "3" -> 3
    [] ch = "4" -> 4 [] ch = "5" -> 5 [] ch = "6" -> 6 [] ch = "7" -> 7
    [] ch = "8" -> 8 [] ch = "9" -> 9

DigitChar(k) ==
  CASE k = 0 -> "0" [] k = 1 -> "1" [] k = 2 -> "2" [] k = 3 -> "3"
    [] k = 4 -> "4" [] k = 5 -> "5" [] k = 6 -> "6" [] k = 7 -> "7"
    [] k = 8 -> "8" [] k = 9 -> "9"

\* the column letters of COL_LABELS
COL_LABELS == {"A", "B", "C", "D", "E", "F", "G", "H", "I", "J"}

\* String.prototype.startsWith('=')
startsWithEq(s) == Len(s) > 0 /\ s[1] = "="

\* s.substring(i) with a 1-based first index
substring(s, i) == IF i > Len(s) THEN <<>> ELSE SubSeq(s, i, Len(s))

RECURSIVE trimStart(_)
trimStart(s) ==
  IF Len(s) > 0 /\ s[1] = " " THEN trimStart(Tail(s)) ELSE s

RECURSIVE trimEnd(_)
trimEnd(s) ==
  IF Len(s) > 0 /\ s[Len(s)] = " " THEN trimEnd(SubSeq(s, 1, Len(s) - 1)) ELSE s

\* String.prototype.trim
trim(s) == trimEnd(trimStart(s))

\* s.replace(/\s+/g, '')
stripWhitespace(s) == SelectSeq(s, LAMBDA ch : ch # " ")

\* does pat occur in s at position i
occursAt(s, pat, i) ==
  /\ i + Len(pat) - 1 <= Len(s)
  /\ \A k \in 1..Len(pat) : s[i + k - 1] = pat[k]

\* s.replace(new RegExp(pat, 'g'), by): every occurrence, left to right
RECURSIVE replaceAll(_, _, _)
replaceAll(s, pat, by) ==
  IF Len(s) = 0 THEN <<>>
  ELSE IF occursAt(s, pat, 1)
       THEN by \o replaceAll(substring(s, Len(pat) + 1), pat, by)
       ELSE <<s[1]>> \o replaceAll(Tail(s), pat, by)

\* s.match(/[A-J](10|[1-9])/g) || []
RECURSIVE matchRefs(_)
matchRefs(s) ==
  IF Len(s) < 2 THEN <<>>
  ELSE IF s[1] \in COL_LABELS /\ Len(s) >= 3 /\ s[2] = "1" /\ s[3] = "0"
       THEN <<SubSeq(s, 1, 3)>> \o matchRefs(substring(s, 4))
       ELSE IF s[1] \in COL_LABELS /\ s[2] \in (Digits \ {"0"})
            THEN <<SubSeq(s, 1, 2)>> \o matchRefs(substring(s, 3))
            ELSE matchRefs(Tail(s))

\* ---------------------------------------------------------------------
\* Numbers
\* ---------------------------------------------------------------------
Abs(x) == IF x < 0 THEN -x ELSE x

RECURSIVE GCD(_, _)
GCD(a, b) == IF b = 0 THEN a ELSE GCD(b, a % b)

RECURSIVE Pow10(_)
Pow10(k) == IF k = 0 THEN 1 ELSE 10 * Pow10(k - 1)

NaN == [n |-> 0, d |-> 0]
Infinity(sign) == [n |-> sign, d |-> 0]

Sign(x) == IF x < 0 THEN -1 ELSE IF x > 0 THEN 1 ELSE 0

\* the rational n/d, d > 0, in lowest terms
Rat(n, d) ==
  LET g == GCD(Abs(n), d) IN [n |-> n \div g, d |-> d \div g]

isNaN(x) == x.d = 0 /\ x.n = 0
isFinite(x) == x.d # 0

numAdd(a, b) ==
  IF isNaN(a) \/ isNaN(b) THEN NaN
  ELSE IF a.d = 0 /\ b.d = 0 THEN (IF a.n = b.n THEN a ELSE NaN)
  ELSE IF a.d = 0 THEN a
  ELSE IF b.d = 0 THEN b
  ELSE Rat(a.n * b.d + b.n * a.d, a.d * b.d)

numNeg(a) == [n |-> -a.n, d |-> a.d]

numSub(a, b) == numAdd(a, numNeg(b))

numMul(a, b) ==
  IF isNaN(a) \/ isNaN(b) THEN NaN
  ELSE IF a.d = 0 \/ b.d = 0
       THEN (IF a.n = 0 \/ b.n = 0 THEN NaN ELSE Infinity(Sign(a.n) * Sign(b.n)))
  ELSE Rat(a.n * b.n, a.d * b.d)

numDiv(a, b) ==
  IF isNaN(a) \/ isNaN(b) THEN NaN
  ELSE IF b.d = 0 THEN (IF a.d = 0 THEN NaN ELSE Rat(0, 1))
  ELSE IF b.n = 0 THEN (IF a.n = 0 THEN NaN ELSE Infinity(Sign(a.n)))
  ELSE IF a.d = 0 THEN Infinity(Sign(a.n) * Sign(b.n))
  ELSE Rat(a.n * b.d * Sign(b.n), a.d * Abs(b.n))

\* the decimal digits of a natural number
RECURSIVE natToString(_)
natToString(k) ==
  IF k < 10 THEN <<DigitChar(k)>>
  ELSE natToString(k \div 10) \o <<DigitChar(k % 10)>>

\* the fractional digits of r/d, 0 <= r < d, by long division
RECURSIVE fracDigits(_, _, _)
fracDigits(r, d, left) ==
  IF r = 0 \/ left = 0 THEN <<>>
  ELSE <<DigitChar((r * 10) \div d)>> \o fracDigits((r * 10) % d, d, left - 1)

\* Number.prototype.toString, also the implicit conversion of a number
\* used as the replacement text of String.prototype.replace
numToString(x) ==
  IF isNaN(x) THEN <<"N", "a", "N">>
  ELSE IF x.d = 0
       THEN (IF x.n < 0 THEN <<"-">> ELSE <<>>)
            \o <<"I", "n", "f", "i", "n", "i", "t", "y">>
  ELSE LET Decimal(ip, fp) ==
             (IF x.n < 0 THEN <<"-">> ELSE <<>>) \o ip
             \o (IF Len(fp) > 0 THEN <<".">> \o fp ELSE <<>>)
       IN Decimal(natToString(Abs(x.n) \div x.d),
                  fracDigits(Abs(x.n) % x.d, x.d, MaxFracDigits))

\* the longest prefix of s made of characters of set
RECURSIVE takeWhile(_, _)
takeWhile(s, set) ==
  IF Len(s) > 0 /\ s[1] \in set THEN <<s[1]>> \o takeWhile(Tail(s), set) ELSE <<>>

RECURSIVE digitsToNat(_, _)
digitsToNat(s, acc) ==
  IF Len(s) = 0 THEN acc ELSE digitsToNat(Tail(s), acc * 10 + DigitVal(s[1]))

\* parseFloat: leading blanks, an optional sign, then the longest prefix
\* digits [. digits] or . digits; NaN when there is no such prefix
parseFloat(str) ==
  LET Number(neg, ip, fp) ==
        IF Len(ip) = 0 /\ Len(fp) = 0 THEN NaN
        ELSE IF neg THEN numNeg(Rat(digitsToNat(ip \o fp, 0), Pow10(Len(fp))))
             ELSE Rat(digitsToNat(ip \o fp, 0), Pow10(Len(fp)))
      Fraction(neg, ip, r1) ==
        Number(neg, ip,
               IF Len(r1) > 0 /\ r1[1] = "." THEN takeWhile(Tail(r1), Digits) ELSE <<>>)
      Integral(neg, s1, ip) == Fraction(neg, ip, substring(s1, Len(ip) + 1))
      Unsigned(neg, s1) == Integral(neg, s1, takeWhile(s1, Digits))
      Signed(s0) ==
        Unsigned(Len(s0) > 0 /\ s0[1] = "-",
                 IF Len(s0) > 0 /\ s0[1] \in {"-", "+"} THEN Tail(s0) ELSE s0)
  IN Signed(trimStart(str))

\* ---------------------------------------------------------------------
\* FormulaParser
\* ---------------------------------------------------------------------
ERROR == <<"#", "E", "R", "R", "O", "R">>
CIRCULAR == <<"#", "C", "I", "R", "C", "U", "L", "A", "R">>

\* error texts: null, a fixed message, or `Invalid reference: ${ref}`
null == [isNull |-> TRUE, msg |-> "", ref |-> <<>>]
Err(m) == [isNull |-> FALSE, msg |-> m, ref |-> <<>>]
InvalidReference(r) == [isNull |-> FALSE, msg |-> "Invalid reference: ", ref |-> r]

NumTok(x) == [k |-> "num", v |-> x, c |-> ""]
OpTok(ch) == [k |-> "op", v |-> NaN, c |-> ch]

NumberChars == Digits \cup {"."}
OperatorChars == {"+", "-", "*", "/", "(", ")"}

\* if (currentNumber) tokens.push(parseFloat(currentNumber))
pushNumber(tokens, currentNumber) ==
  IF Len(currentNumber) > 0
  THEN Append(tokens, NumTok(parseFloat(currentNumber)))
  ELSE tokens

\* if ('+-*/()'.includes(char)) tokens.push(char)
pushOperator(tokens, char) ==
  IF char \in OperatorChars THEN Append(tokens, OpTok(char)) ELSE tokens

RECURSIVE tokenizeFrom(_, _, _)
tokenizeFrom(expr, currentNumber, tokens) ==
  IF Len(expr) = 0 THEN pushNumber(tokens, currentNumber)
  ELSE IF expr[1] \in NumberChars
       THEN tokenizeFrom(Tail(expr), Append(currentNumber, expr[1]), tokens)
       ELSE tokenizeFrom(Tail(expr), <<>>,
                         pushOperator(pushNumber(tokens, currentNumber), expr[1]))

tokenize(expr) == tokenizeFrom(expr, <<>>, <<>>)

precedence(op) == IF op \in {"*", "/"} THEN 2 ELSE 1

Top(st) == st[Len(st)]
Pop(st) == SubSeq(st, 1, Len(st) - 1)

\* while (operators.length && top !== '(' [&& precedence[top] >= prec]) pop to output
RECURSIVE popWhile(_, _, _)
popWhile(output, operators, prec) ==
  IF Len(operators) > 0 /\ Top(operators).c # "(" /\ precedence(Top(operators).c) >= prec
  THEN popWhile(Append(output, Top(operators)), Pop(operators), prec)
  ELSE [output |-> output, operators |-> operators]

\* the conversion to Reverse Polish Notation
RECURSIVE toRPN(_, _, _)
toRPN(tokens, output, operators) ==
  IF Len(tokens) = 0
  THEN output \o [i \in 1..Len(operators) |-> operators[Len(operators) + 1 - i]]
  ELSE LET token == tokens[1] IN
       IF token.k = "num"
       THEN toRPN(Tail(tokens), Append(output, token), operators)
       ELSE IF token.c = "("
       THEN toRPN(Tail(tokens), output, Append(operators, token))
       ELSE IF token.c = ")"
       THEN LET Closed(r) ==
                  toRPN(Tail(tokens), r.output,
                        IF Len(r.operators) > 0 THEN Pop(r.operators) ELSE r.operators)
            IN Closed(popWhile(output, operators, 0))
       ELSE LET Pushed(r) == toRPN(Tail(tokens), r.output, Append(r.operators, token))
            IN Pushed(popWhile(output, operators, precedence(token.c)))

\* stack.pop(): undefined from an empty stack acts as NaN in arithmetic
popValue(stack) == IF Len(stack) > 0 THEN Top(stack) ELSE NaN
popRest(stack) == IF Len(stack) > 0 THEN Pop(stack) ELSE stack

\* applyOp with the cases of '*' and '/' exchanged
applyOpSwapped(op, a, b) ==
  CASE op = "+" -> numAdd(a, b)
    [] op = "-" -> numSub(a, b)
    [] op = "*" -> numDiv(a, b)
    [] op = "/" -> numMul(a, b)

applyOp(op, a, b) ==
  CASE op = "+" -> numAdd(a, b)
    [] op = "-" -> numSub(a, b)
    [] op = "*" -> numMul(a, b)
    [] op = "/" -> numDiv(a, b)

\* the evaluation of the RPN; threw = 'Unknown operator'
RECURSIVE evalRPN(_, _)
evalRPN(output, stack) ==
  IF Len(output) = 0
  THEN [threw |-> FALSE, v |-> IF Len(stack) > 0 THEN stack[1] ELSE NaN]
  ELSE LET token == output[1] IN
       IF token.k = "num"
       THEN evalRPN(Tail(output), Append(stack, token.v))
       ELSE LET Operate(a, b, s2) ==
                  IF token.c \in {"+", "-", "*", "/"}
                  THEN evalRPN(Tail(output), Append(s2, applyOp(token.c, a, b)))
                  ELSE [threw |-> TRUE, v |-> NaN]
            IN Operate(popValue(popRest(stack)), popValue(stack),
                       popRest(popRest(stack)))

calculate(tokens) == evalRPN(toRPN(tokens, <<>>, <<>>), <<>>)

ValidChars == Digits \cup {"+", "-", "*", "/", "(", ")", "."}

\* calculate throws only for a '(' that no ')' matched; the fallback
\* Function(`return (${expression})`)() then fails to compile that text and
\* its SyntaxError leaves safeEvaluate
safeEvaluate(expression) ==
  LET Fallback(r) == IF r.threw THEN [threw |-> TRUE, v |-> NaN] ELSE r
  IN Fallback(calculate(tokenize(SelectSeq(expression, LAMBDA ch : ch \in ValidChars))))

\* getCellValue over the cell table cs its closure holds
getCellValue(cs, cellId) ==
  IF cellId \notin DOMAIN cs THEN [undef |-> TRUE, v |-> NaN]
  ELSE IF cs[cellId].display = CIRCULAR \/ cs[cellId].display = ERROR
       THEN [undef |-> TRUE, v |-> NaN]
       ELSE LET Value(num) ==
                  IF isNaN(num) THEN [undef |-> TRUE, v |-> NaN]
                  ELSE [undef |-> FALSE, v |-> num]
            IN Value(parseFloat(cs[cellId].display))

ParseText(t, e) == [isNum |-> FALSE, text |-> t, num |-> NaN, error |-> e]
ParseNum(x) == [isNum |-> TRUE, text |-> <<>>, num |-> x, error |-> null]

\* cellRefs.forEach: resolve and substitute each reference in turn; the
\* first unresolved one throws
RECURSIVE substituteRefs(_, _, _)
substituteRefs(cellRefs, evalExpression, cs) ==
  IF Len(cellRefs) = 0 THEN [threw |-> FALSE, ref |-> <<>>, expr |-> evalExpression]
  ELSE LET Substitute(ref, value) ==
             IF value.undef \/ isNaN(value.v)
             THEN [threw |-> TRUE, ref |-> ref, expr |-> evalExpression]
             ELSE substituteRefs(Tail(cellRefs),
                                 replaceAll(evalExpression, ref, numToString(value.v)), cs)
       IN Substitute(cellRefs[1], getCellValue(cs, cellRefs[1]))

\* FormulaParser.parse(formula, getCellValue)
parse(formula, cs) ==
  LET Checked(result) ==
        IF result.threw THEN ParseText(ERROR, Err("SyntaxError"))
        ELSE IF isNaN(result.v) \/ ~isFinite(result.v)
        THEN ParseText(ERROR, Err("Invalid result"))
        ELSE ParseNum(result.v)
      Evaluated(evalExpression) ==
        IF \E i \in 1..Len(evalExpression) : evalExpression[i] \notin ValidChars
        THEN ParseText(ERROR, Err("Invalid characters in formula"))
        \* an empty text fails the validChars test (+ needs a character)
        ELSE IF Len(evalExpression) = 0
        THEN ParseText(ERROR, Err("Invalid characters in formula"))
        ELSE Checked(safeEvaluate(evalExpression))
      Substituted(sub) ==
        IF sub.threw THEN ParseText(ERROR, InvalidReference(sub.ref))
        ELSE Evaluated(stripWhitespace(sub.expr))
      Compiled(expression) ==
        IF Len(expression) = 0 THEN ParseText(ERROR, Err("Empty formula"))
        ELSE Substituted(substituteRefs(matchRefs(expression), expression, cs))
  IN IF ~startsWithEq(formula) THEN ParseText(formula, null)
     ELSE Compiled(trim(substring(formula, 2)))

\* ---------------------------------------------------------------------
\* Cells
\* ---------------------------------------------------------------------
A1 == <<"A", "1">>
B1 == <<"B", "1">>
C1 == <<"C", "1">>
A10 == <<"A", "1", "0">>

\* the cell identifiers of the model, a part of the 10 x 10 grid
CellIds == {A1, B1, C1, A10}

EmptyCell == [rawValue |-> <<>>, formula |-> <<>>, display |-> <<>>, error |-> null]

\* the initial value of useState
InitialCells == [id \in CellIds |-> EmptyCell]

\* ---------------------------------------------------------------------
\* DependencyGraph.  A JavaScript Set keeps insertion order, so a Set is a
\* sequence without duplicates; a key absent from a Map is the empty Set.
\* ---------------------------------------------------------------------
InSeq(x, s) == \E i \in 1..Len(s) : s[i] = x
SeqToSet(s) == {s[i] : i \in 1..Len(s)}
setAdd(s, x) == IF InSeq(x, s) THEN s ELSE Append(s, x)
setDelete(s, x) == SelectSeq(s, LAMBDA y : y # x)

NewDependencyGraph ==
  [graph |-> [id \in CellIds |-> <<>>], reverseGraph |-> [id \in CellIds |-> <<>>]]

\* addDependency that records the reverse edge only
addDependencyReverseOnly(G, source, target) ==
  [graph |-> G.graph,
   reverseGraph |-> [G.reverseGraph EXCEPT ![source] = setAdd(@, target)]]

\* addDependency that records the forward edge only
addDependencyForwardOnly(G, source, target) ==
  [graph |-> [G.graph EXCEPT ![target] = setAdd(@, source)],
   reverseGraph |-> G.reverseGraph]

addDependency(G, source, target) ==
  [graph |-> [G.graph EXCEPT ![target] = setAdd(@, source)],
   reverseGraph |-> [G.reverseGraph EXCEPT ![source] = setAdd(@, target)]]

\* removeDependencies that forgets the precedents of cell but leaves cell
\* among their dependents
removeDependenciesReverseOnly(G, cell) ==
  [graph |-> G.graph,
   reverseGraph |-> [G.reverseGraph EXCEPT ![cell] = <<>>]]

\* removeDependencies that removes nothing
removeNothing(G, cell) == G

removeDependencies(G, cell) ==
  LET dependencies == SeqToSet(G.reverseGraph[cell]) IN
  [graph |-> [dep \in CellIds |->
                IF dep \in dependencies THEN setDelete(G.graph[dep], cell)
                ELSE G.graph[dep]],
   reverseGraph |-> [G.reverseGraph EXCEPT ![cell] = <<>>]]

getDependents(G, cell) == G.graph[cell]

\* detectCircular that only sees a cell referencing itself directly
detectCircularSelfOnly(G, startCell, visited) ==
  InSeq(startCell, G.reverseGraph[startCell])

\* detectCircular with one visited set shared by all the branches
detectCircularSharedVisited(G, startCell, visited) ==
  LET RECURSIVE visit(_, _, _)
      visit(cell, i, seen) ==
        IF i > Len(G.reverseGraph[cell]) THEN [found |-> FALSE, seen |-> seen]
        ELSE IF G.reverseGraph[cell][i] \in seen THEN [found |-> TRUE, seen |-> seen]
        ELSE LET Next(r) == IF r.found THEN r ELSE visit(cell, i + 1, r.seen)
             IN Next(visit(G.reverseGraph[cell][i], 1,
                           seen \cup {G.reverseGraph[cell][i]}))
  IN IF startCell \in visited THEN TRUE
     ELSE visit(startCell, 1, visited \cup {startCell}).found

\* detectCircular(startCell, visited): each branch gets a copy of visited
RECURSIVE detectCircular(_, _, _)
detectCircular(G, startCell, visited) ==
  IF startCell \in visited THEN TRUE
  ELSE \E i \in 1..Len(G.reverseGraph[startCell]) :
         detectCircular(G, G.reverseGraph[startCell][i], visited \cup {startCell})

\* getAllDependents(cell, result): depth first, result shared by the calls
RECURSIVE collectDependents(_, _, _, _)
collectDependents(G, directDeps, i, result) ==
  IF i > Len(directDeps) THEN result
  ELSE LET dep == directDeps[i] IN
       IF InSeq(dep, result) THEN collectDependents(G, directDeps, i + 1, result)
       ELSE collectDependents(G, directDeps, i + 1,
              collectDependents(G, G.graph[dep], 1, Append(result, dep)))

getAllDependents(G, cell) == collectDependents(G, G.graph[cell], 1, <<>>)

\* ---------------------------------------------------------------------
\* Spreadsheet: evaluateCell and updateCell
\* ---------------------------------------------------------------------
RECURSIVE addDependencies(_, _, _)
addDependencies(G, cellId, cellRefs) ==
  IF Len(cellRefs) = 0 THEN G
  ELSE addDependencies(addDependency(G, cellId, cellRefs[1]), cellId, Tail(cellRefs))

EvalResult(G, display, formula, error) ==
  [G |-> G, display |-> display, formula |-> formula, error |-> error]

\* the result returned for a circular reference, with the error left out
circularResultNoError(G, cellFormula) == EvalResult(G, CIRCULAR, cellFormula, null)

\* the result returned when detectCircular finds a cycle
circularResult(G, cellFormula) ==
  EvalResult(G, CIRCULAR, cellFormula, Err("Circular reference detected"))

\* evaluateCell with the formula parsed first: a parse error is returned
\* before the circular check is consulted
evaluateCellParseFirst(G, cs, cellId, cellFormula) ==
  LET Parsed(G2, result) ==
        IF ~result.isNum /\ result.text = ERROR
        THEN EvalResult(G2, ERROR, cellFormula, result.error)
        ELSE IF detectCircular(G2, cellId, {})
             THEN circularResult(G2, cellFormula)
             ELSE EvalResult(G2,
                             IF result.isNum THEN numToString(result.num)
                             ELSE result.text,
                             cellFormula, null)
      Unlinked(G1) ==
        IF Len(cellFormula) = 0 \/ ~startsWithEq(cellFormula)
        THEN EvalResult(G1, cellFormula, cellFormula, null)
        ELSE Parsed(addDependencies(G1, cellId, matchRefs(cellFormula)),
                    parse(cellFormula, cs))
  IN Unlinked(removeDependencies(G, cellId))

\* evaluateCell(cellId, formula) of a render whose closure holds the cell
\* table cs; G is dependencyGraph.current before the call, the result
\* carries it after the call
evaluateCell(G, cs, cellId, cellFormula) ==
  LET Parsed(G2, result) ==
        IF ~result.isNum /\ result.text = ERROR
        THEN EvalResult(G2, ERROR, cellFormula, result.error)
        ELSE EvalResult(G2,
                        IF result.isNum THEN numToString(result.num) ELSE result.text,
                        cellFormula, null)
      Linked(G2) ==
        IF detectCircular(G2, cellId, {})
        THEN circularResult(G2, cellFormula)
        ELSE Parsed(G2, parse(cellFormula, cs))
      Unlinked(G1) ==
        IF Len(cellFormula) = 0 \/ ~startsWithEq(cellFormula)
        THEN EvalResult(G1, cellFormula, cellFormula, null)
        ELSE Linked(addDependencies(G1, cellId, matchRefs(cellFormula)))
  IN Unlinked(removeDependencies(G, cellId))

\* the while loop over recalcQueue; log lists the cells evaluateCell ran for
RECURSIVE recalc(_, _, _, _, _, _)
recalc(newCells, G, cs, visited, recalcQueue, log) ==
  IF Len(recalcQueue) = 0 THEN [cells |-> newCells, G |-> G, log |-> log]
  ELSE LET dependentId == Head(recalcQueue)
           rest == Tail(recalcQueue)
           visited1 == visited \cup {Head(recalcQueue)}
           Recalculated(result, nextDeps) ==
             recalc([newCells EXCEPT ![dependentId] =
                       [@ EXCEPT !.display = result.display, !.error = result.error]],
                    result.G, cs, visited1,
                    rest \o SelectSeq(nextDeps, LAMBDA dep : dep \notin visited1),
                    Append(log, dependentId))
           Evaluated(result) ==
             Recalculated(result, getAllDependents(result.G, dependentId))
       IN IF dependentId \in visited THEN recalc(newCells, G, cs, visited, rest, log)
          ELSE IF Len(newCells[dependentId].formula) = 0
               THEN recalc(newCells, G, cs, visited1, rest, log)
               ELSE Evaluated(evaluateCell(G, cs, dependentId,
                                           newCells[dependentId].formula))

\* updateCell with visited starting empty: the edited cell is not marked
updateCellVisitedEmpty(prev, G, cs, cellId, rawValue) ==
  LET Evaluated(cellResult) ==
        recalc([prev EXCEPT ![cellId] =
                  [rawValue |-> rawValue, formula |-> cellResult.formula,
                   display |-> cellResult.display, error |-> cellResult.error]],
               cellResult.G, cs, {},
               getAllDependents(cellResult.G, cellId), <<>>)
  IN Evaluated(evaluateCell(G, cs, cellId, rawValue))

\* updateCell without the recalculation of the dependents
updateCellNoRecalc(prev, G, cs, cellId, rawValue) ==
  LET Evaluated(cellResult) ==
        [cells |-> [prev EXCEPT ![cellId] =
                      [rawValue |-> rawValue, formula |-> cellResult.formula,
                       display |-> cellResult.display, error |-> cellResult.error]],
         G |-> cellResult.G, log |-> <<>>]
  IN Evaluated(evaluateCell(G, cs, cellId, rawValue))

\* the updater updateCell(cellId, rawValue) hands to setCells, applied to
\* prev; cs is the cell table held by the closure of evaluateCell
updateCell(prev, G, cs, cellId, rawValue) ==
  LET Evaluated(cellResult) ==
        recalc([prev EXCEPT ![cellId] =
                  [rawValue |-> rawValue, formula |-> cellResult.formula,
                   display |-> cellResult.display, error |-> cellResult.error]],
               cellResult.G, cs, {cellId},
               getAllDependents(cellResult.G, cellId), <<>>)
  IN Evaluated(evaluateCell(G, cs, cellId, rawValue))

\* the cells a text references when it is a formula
Refs(formula) == IF startsWithEq(formula) THEN SeqToSet(matchRefs(formula)) ELSE {}

\* ---------------------------------------------------------------------
\* The component
\*
\* setCells(updater) queues the updater; the next render applies the queued
\* updaters in order, each once, each to the result of the one before
\* (prev).  getCellValue, evaluateCell and updateCell are useCallback
\* closures over the cells of the render that created them, so an updater
\* evaluates formulas against that render's cells (rendered), while the
\* dependency graph is a ref shared by all renders and changed in place.
\* Every updater returns a new object, so every render that applied one
\* rebuilds the three callbacks and the effect on [updateCell] runs again.
\* ---------------------------------------------------------------------
VARIABLES
  cells,            \* the cells state: the result of the updaters applied so far
  rendered,         \* the cells value of the last render, held by its callbacks
  dependencyGraph,  \* dependencyGraph.current
  queue,            \* the updaters setCells has queued, oldest first
  effectPending,    \* updateCell changed identity and the effect has not run yet
  dirty,            \* a render is under way: updaters applied, not yet committed
  edits,            \* number of user edits so far
  last,             \* the last updater applied: its arguments, prev and log
  dropped,          \* pairs <<X, Y>>, Y # X: the last edit of X removed its reference to Y
  call,             \* a direct call of detectCircular or evaluateCell: its arguments
  result            \* what that call returned

vars == <<cells, rendered, dependencyGraph, queue, effectPending, dirty, edits,
          last, dropped, call, result>>

Text5 == <<"5">>
Text10 == <<"1", "0">>
FormulaA1plus3 == <<"=", "A", "1", "+", "3">>
FormulaB1times2 == <<"=", "B", "1", "*", "2">>
FormulaA1plus1 == <<"=", "A", "1", "+", "1">>
FormulaA1 == <<"=", "A", "1">>
FormulaB1 == <<"=", "B", "1">>
FormulaA1plusB1 == <<"=", "A", "1", "+", "B", "1">>
FormulaEmpty == <<"=">>

\* the edits a user makes in the model: a cell and the text typed into it
UserEdits ==
  { <<A1, Text5>>, <<A1, Text10>>, <<A1, FormulaA1plus1>>, <<A1, FormulaB1>>, <<A1, ERROR>>,
    <<B1, FormulaA1>>, <<B1, FormulaEmpty>>, <<B1, Text5>>,
    <<C1, FormulaA1plusB1>>, <<C1, FormulaA1>> }

\* a queued updater; byUser tells a submitted edit from a seeding call
Update(c, raw) == [cellId |-> c, rawValue |-> raw, byUser |-> FALSE]
UserUpdate(c, raw) == [cellId |-> c, rawValue |-> raw, byUser |-> TRUE]

NoCall ==
  [op |-> "none", G |-> NewDependencyGraph, cell |-> A1, formula |-> <<>>,
   cs |-> InitialCells]

NoResult == [done |-> FALSE, found |-> FALSE, display |-> <<>>, error |-> null]

NoUpdate ==
  [valid |-> FALSE, cellId |-> A1, rawValue |-> <<>>, before |-> InitialCells, log |-> <<>>]

Init ==
  /\ cells = InitialCells
  /\ rendered = InitialCells
  /\ dependencyGraph = NewDependencyGraph
  /\ queue = <<>>
  /\ effectPending = TRUE
  /\ dirty = FALSE
  /\ edits = 0
  /\ last = NoUpdate
  /\ dropped = {}
  /\ call = NoCall
  /\ result = NoResult

\* Cell.handleSubmit: the widget of cell c, showing the last render, submits
\* raw through onUpdate = updateCell, which queues an updater
UserEdit(c, raw) ==
  /\ ~dirty
  /\ edits < MaxEdits
  /\ raw # rendered[c].rawValue
  /\ queue' = Append(queue, UserUpdate(c, raw))
  /\ edits' = edits + 1
  /\ UNCHANGED <<cells, rendered, dependencyGraph, effectPending, dirty, last, dropped,
                 call, result>>

\* useEffect(..., [updateCell]): the three seeding calls
SeedEffect ==
  /\ effectPending
  /\ ~dirty
  /\ queue' = queue \o <<Update(A1, Text5), Update(B1, FormulaA1plus3),
                         Update(C1, FormulaB1times2)>>
  /\ effectPending' = FALSE
  /\ UNCHANGED <<cells, rendered, dependencyGraph, dirty, edits, last, dropped,
                 call, result>>

\* the next render applies the oldest queued updater to the state so far;
\* the updater is the one of the last render, whose closure holds rendered
ApplyUpdate ==
  /\ Len(queue) > 0
  /\ ~effectPending
  /\ LET u == Head(queue)
         Applied(r) ==
           /\ cells' = r.cells
           /\ dependencyGraph' = r.G
           /\ last' = [valid |-> TRUE, cellId |-> Head(queue).cellId,
                       rawValue |-> Head(queue).rawValue,
                       before |-> cells, log |-> r.log]
     IN /\ Applied(updateCell(cells, dependencyGraph, rendered, u.cellId, u.rawValue))
        /\ dropped' = {p \in dropped : p[1] # u.cellId} \cup
                       {<<u.cellId, Y>> : Y \in
                          (Refs(cells[u.cellId].formula) \cup
                           {Z \in CellIds : <<u.cellId, Z>> \in dropped})
                          \ (Refs(u.rawValue) \cup {u.cellId})}
  /\ queue' = Tail(queue)
  /\ dirty' = TRUE
  /\ UNCHANGED <<rendered, effectPending, edits, call, result>>

\* the render commits: the callbacks are rebuilt over the new cells, so
\* updateCell changes identity and the effect is due again
Commit ==
  /\ dirty
  /\ Len(queue) = 0
  /\ rendered' = cells
  /\ dirty' = FALSE
  /\ effectPending' = TRUE
  /\ UNCHANGED <<cells, dependencyGraph, queue, edits, last, dropped, call, result>>

Next ==
  \/ \E e \in UserEdits : UserEdit(e[1], e[2])
  \/ SeedEffect
  \/ ApplyUpdate
  \/ Commit

Spec == Init /\ [][Next]_vars

\* React runs every scheduled effect, applies every queued updater and
\* commits every render it started
\* a queued updater is applied: under Next only ApplyUpdate shortens queue,
\* and it is enabled exactly when ApplyStep is
ApplyStep == Len(queue) > 0 /\ ~effectPending /\ queue' = Tail(queue)

FairSpec ==
  Spec /\ WF_vars(SeedEffect) /\ WF_queue(ApplyStep) /\ WF_vars(Commit)

\* ---------------------------------------------------------------------
\* Direct calls: detectCircular on a graph and evaluateCell on a formula,
\* the arguments drawn from bounded sets
\* ---------------------------------------------------------------------
GraphCells == <<A1, B1, C1>>

\* the edges source -> target a graph over GraphCells can hold, numbered
EdgeCount == Len(GraphCells) * Len(GraphCells)
EdgeSource(k) == GraphCells[((k - 1) \div Len(GraphCells)) + 1]
EdgeTarget(k) == GraphCells[((k - 1) % Len(GraphCells)) + 1]

\* the graph addDependency builds from the edges numbered in E
RECURSIVE GraphOf(_, _, _)
GraphOf(E, k, G) ==
  IF k > EdgeCount THEN G
  ELSE GraphOf(E, k + 1,
               IF k \in E THEN addDependency(G, EdgeSource(k), EdgeTarget(k)) ELSE G)

Graphs == {GraphOf(E, 1, NewDependencyGraph) : E \in SUBSET (1..EdgeCount)}

\* a cell holding the text t, not a formula
LiteralCellOf(t) == [rawValue |-> t, formula |-> t, display |-> t, error |-> null]

Text0 == <<"0">>
Text3 == <<"3">>
Text7 == <<"7">>
Text12 == <<"1", "2">>

\* the cell tables of the direct calls: A1 and A10 hold numbers
Tables ==
  {[InitialCells EXCEPT ![A1] = LiteralCellOf(a), ![A10] = LiteralCellOf(b)] :
     a \in {Text0, Text5, Text12}, b \in {Text0, Text3, Text7}}

Formula5div0 == <<"=", "5", "/", "0">>
Formula5divInf == <<"=", "5", "/", "(", "1", "/", "0", ")">>
Formula0timesInf == <<"=", "0", "*", "(", "1", "/", "0", ")">>
FormulaA1divA10 == <<"=", "A", "1", "/", "A", "1", "0">>
FormulaA1plusA10 == <<"=", "A", "1", "+", "A", "1", "0">>
FormulaA10plusA1 == <<"=", "A", "1", "0", "+", "A", "1">>
FormulaOpenParen == <<"=", "(", "1", "+", "2">>
FormulaCloseParen == <<"=", "1", "+", "2", ")">>
FormulaNoOperand == <<"=", "1", "+">>
FormulaMinus5 == <<"=", "-", "5">>
Formula2paren3 == <<"=", "2", "(", "3", ")">>
Formula1plus2 == <<"=", "1", "+", "2">>
Formula6div4 == <<"=", "6", "/", "4">>

Formulas ==
  { Formula5div0, Formula5divInf, Formula0timesInf, FormulaA1divA10,
    FormulaA1plusA10, FormulaA10plusA1, FormulaOpenParen, FormulaCloseParen,
    FormulaNoOperand, FormulaMinus5, Formula2paren3, Formula1plus2, Formula6div4 }

DetectCall(G, c) == [NoCall EXCEPT !.op = "detectCircular", !.G = G, !.cell = c]
EvaluateCall(f, t) ==
  [NoCall EXCEPT !.op = "evaluateCell", !.cell = C1, !.formula = f, !.cs = t]

Calls ==
  {DetectCall(G, GraphCells[i]) : G \in Graphs, i \in 1..Len(GraphCells)}
    \cup {EvaluateCall(f, t) : f \in Formulas, t \in Tables}

InitCall ==
  /\ cells = InitialCells
  /\ rendered = InitialCells
  /\ dependencyGraph = NewDependencyGraph
  /\ queue = <<>>
  /\ effectPending = FALSE
  /\ dirty = FALSE
  /\ edits = 0
  /\ last = NoUpdate
  /\ dropped = {}
  /\ call \in Calls
  /\ result = NoResult

\* dependencyGraph.current.detectCircular(cell)
DetectCircular ==
  /\ call.op = "detectCircular"
  /\ ~result.done
  /\ result' = [NoResult EXCEPT !.done = TRUE,
                                !.found = detectCircular(call.G, call.cell, {})]
  /\ UNCHANGED <<cells, rendered, dependencyGraph, queue, effectPending, dirty,
                 edits, last, dropped, call>>

\* evaluateCell(cell, formula) of a render holding the table call.cs, on an
\* empty dependency graph
EvaluateCell ==
  /\ call.op = "evaluateCell"
  /\ ~result.done
  /\ LET Returned(r) ==
           result' = [NoResult EXCEPT !.done = TRUE, !.display = r.display,
                                      !.error = r.error]
     IN Returned(evaluateCell(NewDependencyGraph, call.cs, call.cell, call.formula))
  /\ UNCHANGED <<cells, rendered, dependencyGraph, queue, effectPending, dirty,
                 edits, last, dropped, call>>

NextCall == DetectCircular \/ EvaluateCell

CallSpec == InitCall /\ [][NextCall]_vars

\* ---------------------------------------------------------------------
\* Vocabulary of the properties
\* ---------------------------------------------------------------------
Text8 == <<"8">>
Text13 == <<"1", "3">>
Text16 == <<"1", "6">>
Text26 == <<"2", "6">>

\* ApplyUpdate is the only step that shortens the queue
UpdateStep == Len(queue) > 0 /\ queue' = Tail(queue)

\* the cells of table t from which c is reached along references
RECURSIVE DependentsClosure(_, _)
DependentsClosure(t, S) ==
  LET more == {x \in CellIds : Refs(t[x].formula) \cap S # {}} IN
  IF more \subseteq S THEN S ELSE DependentsClosure(t, S \cup more)

\* the transitive dependents of c in table t, by the formulas of t
TransitiveDependents(t, c) ==
  DependentsClosure(t, {x \in CellIds : c \in Refs(t[x].formula)})

\* c lies on a cycle of references of table t
OnCycle(t, c) == c \in TransitiveDependents(t, c)

\* some cell of table t lies on a cycle
HasCycle(t) == \E c \in CellIds : OnCycle(t, c)

IsSentinel(display) == display = ERROR \/ display = CIRCULAR

\* ---------------------------------------------------------------------
\* C1 (as claimed): with A1 the literal 5, B1 '=A1+3' showing 8 and C1
\* '=B1*2' showing 16, once updateCell('A1','10') has been applied B1 shows
\* 13 and C1 shows 26, both without error.
\* ---------------------------------------------------------------------
ChainPropagation ==
  ( /\ last.valid /\ last.cellId = A1 /\ last.rawValue = Text10
    /\ last.before[A1].formula = Text5 /\ last.before[A1].display = Text5
    /\ last.before[B1].formula = FormulaA1plus3 /\ last.before[B1].display = Text8
    /\ last.before[C1].formula = FormulaB1times2 /\ last.before[C1].display = Text16 )
  => ( /\ cells[B1].display = Text13 /\ cells[B1].error = null
       /\ cells[C1].display = Text26 /\ cells[C1].error = null )

\* ---------------------------------------------------------------------
\* C2 (as claimed): when the edit A1 := 5 has been applied before the edit
\* B1 := '=A1+3', B1 shows 8 without error, whichever render issued the
\* two calls.
\* ---------------------------------------------------------------------
FormulaSeesEarlierEdit ==
  ( /\ last.valid /\ last.cellId = B1 /\ last.rawValue = FormulaA1plus3
    /\ last.before[A1].rawValue = Text5 /\ last.before[A1].display = Text5 )
  => (cells[B1].display = Text8 /\ cells[B1].error = null)

\* ---------------------------------------------------------------------
\* C3 (as claimed): when no cycle exists, once updateCell has completed
\* every transitive dependent of the edited cell shows what its formula
\* evaluates to against the displays its precedents have at that moment.
\* ---------------------------------------------------------------------
FixedPointAfterEdit ==
  (last.valid /\ ~HasCycle(cells))
  => \A c \in TransitiveDependents(cells, last.cellId) :
       cells[c].display =
         evaluateCell(dependencyGraph, cells, c, cells[c].formula).display

\* ---------------------------------------------------------------------
\* C4: every cell on a cycle of references shows '#CIRCULAR', in every
\* state in which the cycle exists (so none of them shows a number).
\* ---------------------------------------------------------------------
CircularShown ==
  \A c \in CellIds : OnCycle(cells, c) => cells[c].display = CIRCULAR

\* C4 witness: the self reference A1 := '=A1+1' has been applied
CircularSelfWitness ==
  /\ last.valid /\ last.cellId = A1 /\ last.rawValue = FormulaA1plus1
  /\ OnCycle(cells, A1) /\ cells[A1].display = CIRCULAR

\* the mutual reference A1 := '=B1', B1 := '=A1' has been applied
CircularMutualWitness ==
  /\ last.valid /\ last.cellId = B1 /\ last.rawValue = FormulaA1
  /\ cells[A1].formula = FormulaB1
  /\ cells[A1].display = CIRCULAR /\ cells[B1].display = CIRCULAR

\* ---------------------------------------------------------------------
\* C5 (as claimed): a formula cell X that references a cell Y showing
\* '#ERROR' or '#CIRCULAR' shows '#ERROR', and its error names such a Y.
\* ---------------------------------------------------------------------
InvalidReferenceShown ==
  \A X \in CellIds :
    LET bad == {Y \in Refs(cells[X].formula) : IsSentinel(cells[Y].display)} IN
    bad # {} =>
      /\ cells[X].display = ERROR
      /\ cells[X].error.msg = "Invalid reference: "
      /\ cells[X].error.ref \in bad

\* ---------------------------------------------------------------------
\* C6 (as claimed): once an edit of X has removed its reference to Y, Y
\* no longer has X among its dependents, and a later edit of Y neither
\* re-evaluates X nor changes the record of X.
\* ---------------------------------------------------------------------
DroppedEdgeGone ==
  \A p \in dropped : ~InSeq(p[1], dependencyGraph.graph[p[2]])

StaleEdgeNeverFollowed ==
  /\ []DroppedEdgeGone
  /\ [][ \A p \in dropped :
           (UpdateStep /\ Head(queue).cellId = p[2])
           => (~InSeq(p[1], last'.log) /\ cells'[p[1]] = cells[p[1]]) ]_vars

\* C6 (amended): the same, for a later edit of Y made while X is not a
\* transitive dependent of Y through other cells.
StaleEdgeDropped ==
  /\ []DroppedEdgeGone
  /\ [][ \A p \in dropped :
           ( /\ UpdateStep /\ Head(queue).cellId = p[2]
             /\ p[1] \notin TransitiveDependents(cells, p[2]) )
           => (~InSeq(p[1], last'.log) /\ cells'[p[1]] = cells[p[1]]) ]_vars

\* C6 witness: C1 went from '=A1+B1' to '=A1' and B1 has been edited since
StaleEdgeWitness ==
  /\ <<C1, B1>> \in dropped
  /\ cells[C1].formula = FormulaA1
  /\ last.valid /\ last.cellId = B1
  /\ last.before[C1] = cells[C1]
  /\ <<C1, B1>> \notin {<<x, B1>> : x \in TransitiveDependents(cells, B1)}

\* ---------------------------------------------------------------------
\* C7 (as claimed): applying an edit and then at once the same edit again
\* leaves the cell table as the first application left it.
\* ---------------------------------------------------------------------
EditIdempotent ==
  [][ ( /\ UpdateStep /\ last.valid
        /\ Head(queue).cellId = last.cellId
        /\ Head(queue).rawValue = last.rawValue )
      => cells' = cells ]_vars

\* ---------------------------------------------------------------------
\* C8: after an edit whose raw text does not start with '=', the cell
\* shows the raw text, has no error and has no precedent edge.
\* ---------------------------------------------------------------------
LiteralCell ==
  (last.valid /\ ~startsWithEq(last.rawValue))
  => /\ cells[last.cellId].display = last.rawValue
     /\ cells[last.cellId].error = null
     /\ dependencyGraph.reverseGraph[last.cellId] = <<>>
     /\ \A Y \in CellIds : ~InSeq(last.cellId, dependencyGraph.graph[Y])

\* C8 witness: a literal has replaced a formula that had precedent edges
LiteralWitness ==
  /\ last.valid /\ ~startsWithEq(last.rawValue)
  /\ Refs(last.before[last.cellId].formula) # {}
  /\ cells[last.cellId].display = last.rawValue

\* ---------------------------------------------------------------------
\* C9 (as claimed): the error of a cell is set exactly when its display is
\* '#ERROR' or '#CIRCULAR'.
\* ---------------------------------------------------------------------
ErrorIffSentinel ==
  \A c \in CellIds : (cells[c].error # null) <=> IsSentinel(cells[c].display)

\* C9 (amended): the error of a cell is set exactly when the cell holds a
\* formula and its display is '#ERROR' or '#CIRCULAR'.
ErrorIffFormulaSentinel ==
  \A c \in CellIds :
    (cells[c].error # null)
      <=> (startsWithEq(cells[c].formula) /\ IsSentinel(cells[c].display))

\* C9 witness: a formula cell shows a sentinel with its error set while a
\* literal cell shows the text '#ERROR' without error
ErrorWitness ==
  /\ \E c \in CellIds : startsWithEq(cells[c].formula) /\ cells[c].error # null
  /\ \E c \in CellIds : ~startsWithEq(cells[c].formula) /\ cells[c].display = ERROR

\* ---------------------------------------------------------------------
\* C10: after an edit, the precedents the graph records for the edited
\* cell and for every dependent it re-evaluated are exactly the references
\* of the cell's current formula.
\* ---------------------------------------------------------------------
EdgesMatchFormula ==
  last.valid =>
    \A X \in {last.cellId} \cup SeqToSet(last.log) :
      SeqToSet(dependencyGraph.reverseGraph[X]) = Refs(cells[X].formula)

\* C10 witness: an edit replaced a formula by one with other references and
\* re-evaluated a dependent
EdgesWitness ==
  /\ last.valid /\ Len(last.log) > 0
  /\ Refs(last.before[last.cellId].formula) # {}
  /\ Refs(last.before[last.cellId].formula) # Refs(cells[last.cellId].formula)

\* ---------------------------------------------------------------------
\* C11: when the cycle detection rooted at a cell that evaluateCell has
\* just evaluated (the edited cell or a recalculated dependent) finds a
\* cycle, that cell shows '#CIRCULAR' with the error 'Circular reference
\* detected', whatever parse would have returned for its formula.
\* ---------------------------------------------------------------------
CircularTakesPriority ==
  last.valid =>
    \A X \in {last.cellId} \cup SeqToSet(last.log) :
      (startsWithEq(cells[X].formula) /\ detectCircular(dependencyGraph, X, {}))
        => /\ cells[X].display = CIRCULAR
           /\ cells[X].error = Err("Circular reference detected")

\* a cell on a cycle whose formula parse would have turned into a number,
\* and one whose formula parse would have rejected
CircularOverNumberWitness ==
  /\ last.valid
  /\ startsWithEq(last.rawValue)
  /\ detectCircular(dependencyGraph, last.cellId, {})
  /\ parse(last.rawValue, rendered).isNum
  /\ cells[last.cellId].display = CIRCULAR

CircularOverErrorWitness ==
  /\ last.valid
  /\ startsWithEq(last.rawValue)
  /\ detectCircular(dependencyGraph, last.cellId, {})
  /\ ~parse(last.rawValue, rendered).isNum
  /\ parse(last.rawValue, rendered).text = ERROR
  /\ cells[last.cellId].display = CIRCULAR

\* ---------------------------------------------------------------------
\* C12: one application of updateCell evaluates the edited cell once and
\* then every other cell of its transitive-dependent set exactly once, on
\* cyclic graphs too; the edited cell is not evaluated again as its own
\* dependent, and a dependent that evaluates to '#ERROR' or '#CIRCULAR'
\* does not stop the recalculation of the cells after it.
\* ---------------------------------------------------------------------
RecalculatedExactlyOnce ==
  last.valid =>
    /\ \A i, j \in 1..Len(last.log) : last.log[i] = last.log[j] => i = j
    /\ SeqToSet(last.log) = TransitiveDependents(cells, last.cellId) \ {last.cellId}

\* the edited cell is its own transitive dependent, and the recalculation
\* went on after a dependent that evaluated to a sentinel
RecalculatedOnCycleWitness ==
  /\ last.valid
  /\ last.cellId \in TransitiveDependents(cells, last.cellId)
  /\ Len(last.log) >= 2
  /\ IsSentinel(cells[last.log[1]].display)

\* ---------------------------------------------------------------------
\* C13: whenever a division by zero occurs while a formula is evaluated,
\* as the whole expression or inside a sub-expression, the cell shows
\* '#ERROR', never a number and never 'Infinity'.
\* ---------------------------------------------------------------------
\* the evaluation of the RPN applies '/' to a divisor that is zero
RECURSIVE rpnDividesByZero(_, _)
rpnDividesByZero(output, stack) ==
  IF Len(output) = 0 THEN FALSE
  ELSE IF output[1].k = "num"
  THEN rpnDividesByZero(Tail(output), Append(stack, output[1].v))
  ELSE IF output[1].c \notin {"+", "-", "*", "/"} THEN FALSE
  ELSE \/ /\ output[1].c = "/"
          /\ Len(stack) > 0
          /\ isFinite(Top(stack)) /\ Top(stack).n = 0
       \/ rpnDividesByZero(Tail(output),
             Append(popRest(popRest(stack)),
                    applyOp(output[1].c, popValue(popRest(stack)), popValue(stack))))

\* the expression calculate receives for a formula: references replaced,
\* whitespace removed; <<>> when parse returns before evaluating
EvaluatedExpression(formula, cs) ==
  IF ~startsWithEq(formula) THEN <<>>
  ELSE LET expression == trim(substring(formula, 2))
           sub == substituteRefs(matchRefs(expression), expression, cs)
       IN IF sub.threw \/ \E i \in 1..Len(sub.expr) :
                             stripWhitespace(sub.expr)[i] \notin ValidChars \cup {" "}
          THEN <<>>
          ELSE stripWhitespace(sub.expr)

DividesByZero(formula, cs) ==
  rpnDividesByZero(toRPN(tokenize(EvaluatedExpression(formula, cs)), <<>>, <<>>), <<>>)

DivisionByZeroRejected ==
  (result.done /\ call.op = "evaluateCell" /\ DividesByZero(call.formula, call.cs))
    => result.display = ERROR

\* ---------------------------------------------------------------------
\* C15: detectCircular(cell) is true exactly when some cell reachable from
\* cell along precedent edges, cell included, lies on a directed cycle of
\* precedent edges; it is false on acyclic graphs, diamonds included, and
\* it returns on every graph.
\* ---------------------------------------------------------------------
Precedents(G, c) == SeqToSet(G.reverseGraph[c])

RECURSIVE PrecedentClosure(_, _)
PrecedentClosure(G, S) ==
  LET T == S \cup UNION {Precedents(G, c) : c \in S}
  IN IF T = S THEN S ELSE PrecedentClosure(G, T)

\* c lies on a directed cycle of precedent edges
OnPrecedentCycle(G, c) == c \in PrecedentClosure(G, Precedents(G, c))

ReachesCycle(G, c) == \E y \in PrecedentClosure(G, {c}) : OnPrecedentCycle(G, y)

DetectCircularExact ==
  (result.done /\ call.op = "detectCircular")
    => (result.found <=> ReachesCycle(call.G, call.cell))

\* a diamond: C1 reaches A1 directly and through B1, and no cycle
DiamondWitness ==
  /\ result.done /\ call.op = "detectCircular" /\ call.cell = C1
  /\ Precedents(call.G, C1) = {A1, B1}
  /\ Precedents(call.G, B1) = {A1}
  /\ Precedents(call.G, A1) = {}
  /\ ~result.found

\* a cell off the cycle that reaches one
ReachesCycleWitness ==
  /\ result.done /\ call.op = "detectCircular"
  /\ ~OnPrecedentCycle(call.G, call.cell)
  /\ result.found

\* ---------------------------------------------------------------------
\* C16: a formula whose expression passes the character check but is
\* malformed (a parenthesis without its partner, an operator short of an
\* operand, or values left over on the evaluation stack) shows '#ERROR',
\* never a number.
\* ---------------------------------------------------------------------
\* the parentheses of tokens do not pair up; depth counts the open ones
RECURSIVE Unbalanced(_, _)
Unbalanced(tokens, depth) ==
  IF Len(tokens) = 0 THEN depth # 0
  ELSE IF tokens[1].k = "num" THEN Unbalanced(Tail(tokens), depth)
  ELSE IF tokens[1].c = "(" THEN Unbalanced(Tail(tokens), depth + 1)
  ELSE IF tokens[1].c = ")" THEN depth = 0 \/ Unbalanced(Tail(tokens), depth - 1)
  ELSE Unbalanced(Tail(tokens), depth)

\* an operator finds fewer than two values, or the end finds other than one
RECURSIVE rpnStackFault(_, _)
rpnStackFault(output, height) ==
  IF Len(output) = 0 THEN height # 1
  ELSE IF output[1].k = "num" THEN rpnStackFault(Tail(output), height + 1)
  ELSE height < 2 \/ rpnStackFault(Tail(output), height - 1)

Malformed(formula, cs) ==
  /\ Len(EvaluatedExpression(formula, cs)) > 0
  /\ \/ Unbalanced(tokenize(EvaluatedExpression(formula, cs)), 0)
     \/ rpnStackFault(toRPN(tokenize(EvaluatedExpression(formula, cs)), <<>>, <<>>), 0)

MalformedRejected ==
  (result.done /\ call.op = "evaluateCell" /\ Malformed(call.formula, call.cs))
    => result.display = ERROR

\* ---------------------------------------------------------------------
\* C17: references are substituted token by token: with A1 holding the
\* number a and A10 the number b, '=A1+A10' evaluates to a + b.
\* ---------------------------------------------------------------------
SubstitutionPerToken ==
  (result.done /\ call.op = "evaluateCell"
     /\ call.formula \in {FormulaA1plusA10, FormulaA10plusA1})
    => result.display = numToString(numAdd(parseFloat(call.cs[A1].display),
                                           parseFloat(call.cs[A10].display)))

\* ---------------------------------------------------------------------
\* C14: from the mounted component, with no user input, the seeding effect
\* brings the table to A1 = 5, B1 = 8, C1 = 16 without errors, and from
\* then on these displays stay as they are.
\* ---------------------------------------------------------------------
SeededShown ==
  /\ cells[A1].display = Text5 /\ cells[A1].error = null
  /\ cells[B1].display = Text8 /\ cells[B1].error = null
  /\ cells[C1].display = Text16 /\ cells[C1].error = null

SeededEventually == ([](edits = 0)) => <>[]SeededShown

\* a committed render showing the example, no user edit so far
SeededWitness ==
  /\ edits = 0
  /\ ~dirty /\ Len(queue) = 0
  /\ rendered = cells
  /\ SeededShown

\* ---------------------------------------------------------------------
\* C18: after every applied edit, a formula cell shows '#CIRCULAR' exactly
\* when a cycle of precedent edges is reachable from it; once an edit has
\* broken a cycle, no formula cell that no longer reaches one still shows
\* '#CIRCULAR'.
\* ---------------------------------------------------------------------
CircularIffCycleReachable ==
  \A c \in CellIds :
    startsWithEq(cells[c].formula) =>
      (cells[c].display = CIRCULAR <=> ReachesCycle(dependencyGraph, c))

\* the last edit broke a cycle: a formula cell other than the edited one
\* showed '#CIRCULAR' before it and shows something else now
CycleBrokenWitness ==
  /\ last.valid
  /\ \E X \in CellIds \ {last.cellId} :
       /\ last.before[X].display = CIRCULAR
       /\ startsWithEq(cells[X].formula)
       /\ cells[X].display # CIRCULAR
       /\ ~ReachesCycle(dependencyGraph, X)

\* ---------------------------------------------------------------------
\* C19: graph and reverseGraph mirror each other in every reachable
\* state: X is among the dependents of Y exactly when Y is among the
\* precedents of X.
\* ---------------------------------------------------------------------
GraphsMirror ==
  \A X, Y \in CellIds :
    InSeq(X, dependencyGraph.graph[Y]) <=> InSeq(Y, dependencyGraph.reverseGraph[X])

\* edges were added and one of them removed again by a later edit
MirrorWitness ==
  /\ last.valid
  /\ \E X, Y \in CellIds : InSeq(X, dependencyGraph.graph[Y])
  /\ \E Y \in Refs(last.before[last.cellId].formula) :
       ~InSeq(last.cellId, dependencyGraph.graph[Y])

\* ---------------------------------------------------------------------
\* C20: the seeding effect fires finitely often, after which the component
\* is at rest; hence once a user has edited A1, only a user edit sets the
\* rawValue of A1 back to '5'.
\* ---------------------------------------------------------------------
\* A1 holds a text only a user can have entered, and the updater applied
\* next sets it to '5': that updater was submitted by a user
OnlyUserRestoresA1 ==
  [][(/\ UpdateStep
      /\ cells[A1].rawValue \notin {<<>>, Text5}
      /\ cells'[A1].rawValue = Text5)
       => Head(queue).byUser]_vars

\* the component comes to rest: no effect due, nothing queued, no render
\* under way
SeedingQuiesces == <>[](~effectPending /\ Len(queue) = 0 /\ ~dirty)

====
